---- MODULE Spec2Model ----
(***************************************************************************)
(* A model of the GCP assistant tool (src/multi_tool_agent): the query     *)
(* classifier gcp_tool, the suggestion engine get_suggested_commands, the  *)
(* command router execute_gcloud_command with its three handlers, and the  *)
(* subprocess executor execute_subprocess.                                 *)
(*                                                                         *)
(* Text.  A Python str is modelled as a sequence of lexemes; a lexeme is a *)
(* TLA+ string holding a piece of the text verbatim, and the str is the    *)
(* concatenation of its lexemes.  The lexemes of the inputs are words,     *)
(* single punctuation characters (space, double quote, backtick, "/", "-", *)
(* ".") and whole flags such as "--format=json".  Every string operation   *)
(* of the code (startswith, split, strip, shlex.split, re.search, re.sub)  *)
(* is computed on the lexeme sequence; what a lexeme contains, ends with   *)
(* or lowercases to is tabulated below for the lexemes of the inputs.      *)
(***************************************************************************)
EXTENDS Naturals, Sequences, FiniteSets, TLC

(***************************************************************************)
(* Bounds of the input space.                                              *)
(***************************************************************************)
\* natural-language queries: a phrase followed by at most MaxSuffix more phrases
MaxSuffix == 1
\* literal commands: a base command followed by at most MaxExtra more chunks
MaxExtra == 2

(***************************************************************************)
(* Lexeme tables.                                                          *)
(***************************************************************************)
\* the backtick character (a TLA+ string literal cannot hold it)
Backtick == "<backtick>"

\* str.isspace of a one-lexeme text
IsSpace(c) == c \in {" ", "\n"}

\* str.lower of a lexeme (re.IGNORECASE compares the lowercased texts)
Lower(c) ==
    CASE c = "FROM" -> "from"
      [] c = "LIST" -> "list"
      [] c = "P1" -> "p1"
      [] c = "SELECT" -> "select"
      [] c = "billingAccounts" -> "billingaccounts"
      [] c = "Available" -> "available"
      [] c = "GCP" -> "gcp"
      [] c = "BigQuery" -> "bigquery"
      [] c = "Tables" -> "tables"
      [] OTHER -> c

\* the keywords of the suggestion engine that occur inside a lowercased lexeme
Substrings(c) ==
    {c} \cup
    CASE c = "--billing-account=" -> {"billing", "account"}
      [] c = "--dataset=ds" -> {"set", "dataset"}
      [] c = "accounts" -> {"account"}
      [] c = "billingaccounts" -> {"billing", "account"}
      [] c = "buckets" -> {"bucket"}
      [] c = "dataset" -> {"set"}
      [] c = "datasets" -> {"set", "dataset"}
      [] c = "instances" -> {"instance"}
      [] c = "logs" -> {"log"}
      [] c = "projects" -> {"project"}
      [] c = "regions" -> {"region"}
      [] c = "services" -> {"service"}
      [] c = "tables" -> {"table"}
      [] c = "zones" -> {"zone"}
      [] OTHER -> {}

\* the lexeme ends with the word w, case-insensitively
EndsWith(c, w) == Lower(c) = w \/ <<Lower(c), w>> \in {<<"dataset", "set">>}

\* the character class of a lexeme for the table-reference pattern:
\* "w" all of \w, "s" whitespace, "-" all of [-\w] with a hyphen first,
\* "." the dot, "x" anything else (none of which starts with a \w character
\* or holds a dot)
CharClass(c) ==
    CASE IsSpace(c) -> "s"
      [] c \in {"-", "--quiet"} -> "-"
      [] c = "." -> "."
      [] c \in {"\"", Backtick, "/", "--format=json", "--format=csv",
                "--dataset=ds", "--billing-account=", "--project=",
                "--format=gsutil"} -> "x"
      [] OTHER -> "w"

\* str.startswith("--format") and str.startswith("--") of a one-lexeme text
LexStartsWithFormat(c) == c \in {"--format=json", "--format=csv", "--format=gsutil"}
LexStartsWithDashes(c) ==
    c \in {"--format=json", "--format=csv", "--dataset=ds", "--quiet",
           "--billing-account=", "--project=", "--format=gsutil"}
\* "=" in a one-lexeme text
LexHasEquals(c) ==
    c \in {"--format=json", "--format=csv", "--dataset=ds", "--billing-account=",
           "--project=", "--format=gsutil"}

(***************************************************************************)
(* Text operations.                                                        *)
(***************************************************************************)
startswith(s, prefix) ==
    Len(s) >= Len(prefix) /\ SubSeq(s, 1, Len(prefix)) = prefix

RECURSIVE lstrip(_)
lstrip(s) == IF s # <<>> /\ IsSpace(Head(s)) THEN lstrip(Tail(s)) ELSE s

RECURSIVE rstrip(_)
rstrip(s) ==
    IF s # <<>> /\ IsSpace(s[Len(s)]) THEN rstrip(SubSeq(s, 1, Len(s) - 1)) ELSE s

strip(s) == rstrip(lstrip(s))

lower(s) == [i \in 1..Len(s) |-> Lower(s[i])]

\* sep.join(parts)
RECURSIVE join(_, _)
join(sep, parts) ==
    IF parts = <<>> THEN <<>>
    ELSE IF Len(parts) = 1 THEN parts[1]
    ELSE parts[1] \o sep \o join(sep, Tail(parts))

\* the first position >= i of s that holds no whitespace (Len(s) + 1 if none)
RECURSIVE SkipSpace(_, _)
SkipSpace(s, i) ==
    IF i <= Len(s) /\ IsSpace(s[i]) THEN SkipSpace(s, i + 1) ELSE i

\* the first position >= i of s that holds whitespace (Len(s) + 1 if none)
RECURSIVE SkipWord(_, _)
SkipWord(s, i) ==
    IF i <= Len(s) /\ ~IsSpace(s[i]) THEN SkipWord(s, i + 1) ELSE i

\* the positions of the double quotes of s
QuotePositions(s) == {i \in 1..Len(s) : s[i] = "\""}

Min(S) == CHOOSE x \in S : \A y \in S : x <= y
Max(S) == CHOOSE x \in S : \A y \in S : x >= y

\* s.split('/')[-1]
AfterLastSlash(s) ==
    LET P == {i \in 1..Len(s) : s[i] = "/"}
    IN  IF P = {} THEN s ELSE SubSeq(s, Max(P) + 1, Len(s))

(***************************************************************************)
(* shlex.split (POSIX rules) on the characters the inputs hold: whitespace *)
(* ends a token, a double quote opens or closes a quoted stretch, which    *)
(* may be empty and joins the word around it.  An unclosed quote raises    *)
(* ValueError.                                                             *)
(***************************************************************************)
RECURSIVE ShlexScan(_, _, _, _, _, _)
ShlexScan(s, i, state, token, quoted, out) ==
    IF i > Len(s)
    THEN IF state = "\"" THEN [ok |-> FALSE, tokens |-> <<>>]
         ELSE [ok |-> TRUE,
               tokens |-> IF token # <<>> \/ quoted THEN Append(out, token) ELSE out]
    ELSE LET c == s[i] IN
         IF state = "\""
         THEN IF c = "\""
              THEN ShlexScan(s, i + 1, "a", token, TRUE, out)
              ELSE ShlexScan(s, i + 1, "\"", Append(token, c), TRUE, out)
         ELSE IF IsSpace(c)
         THEN IF token # <<>> \/ quoted
              THEN ShlexScan(s, i + 1, " ", <<>>, FALSE, Append(out, token))
              ELSE ShlexScan(s, i + 1, " ", <<>>, FALSE, out)
         ELSE IF c = "\""
         THEN ShlexScan(s, i + 1, "\"", token, TRUE, out)
         ELSE ShlexScan(s, i + 1, "a", Append(token, c), quoted, out)

shlex_split(s) == ShlexScan(s, 1, " ", <<>>, FALSE, <<>>)

\* arg.startswith("--format"), arg.startswith("--"), "=" in arg, for a token
StartsWithFormat(arg) == arg # <<>> /\ LexStartsWithFormat(arg[1])
StartsWithDashes(arg) == arg # <<>> /\ LexStartsWithDashes(arg[1])
HasEquals(arg) == \E i \in 1..Len(arg) : LexHasEquals(arg[i])

(***************************************************************************)
(* The process environment and the values handed around.                   *)
(***************************************************************************)
\* os.environ.get of a variable that is not set
None == <<"<None>">>
\* the values of GCLOUD_PATH and BQ_PATH when they are set
GcloudPath == <<"/sdk/bin/gcloud">>
BqPath == <<"/sdk/bin/bq">>
\* the default of GCLOUD_PATH in the "list buckets" rule
DefaultGcloudPath ==
    <<"C:\\Users\\roapp\\AppData\\Local\\Google\\Cloud SDK\\google-cloud-sdk\\bin\\gcloud.cmd">>

\* what a handler of the router does: it hands an argument vector to the
\* subprocess executor, returns an Execution Result at once, or raises
Run(args) == [kind |-> "run", args |-> args]
Return(result) == [kind |-> "return", result |-> result]
Raise(exc) == [kind |-> "raise", exc |-> exc]

\* the start of execute_subprocess: ' '.join(args), evaluated for the debug
\* log, raises TypeError for a path that is None; then subprocess.run
ExecuteSubprocessStart(args) ==
    IF \E i \in 1..Len(args) : args[i] = None THEN Raise("TypeError")
    ELSE Run(args)

(***************************************************************************)
(* handle_bigquery_query                                                   *)
(***************************************************************************)
\* command.split(maxsplit=2)
split_maxsplit2(command) ==
    LET a == SkipSpace(command, 1)
        b == SkipWord(command, a)
        c == SkipSpace(command, b)
        d == SkipWord(command, c)
        e == SkipSpace(command, d)
        n == Len(command)
    IN  IF a > n THEN <<>>
        ELSE IF c > n THEN <<SubSeq(command, a, b - 1)>>
        ELSE IF e > n THEN <<SubSeq(command, a, b - 1), SubSeq(command, c, d - 1)>>
        ELSE <<SubSeq(command, a, b - 1), SubSeq(command, c, d - 1),
               SubSeq(command, e, n)>>

\* the index (from 1) of the first token that starts no flag, 0 if there is none
FlagEndIdxFirstPlain(parts) ==
    LET B == {i \in 1..Len(parts) : ~StartsWithDashes(parts[i])}
    IN  IF B = {} THEN 0 ELSE Min(B)

\* flag_end_idx + 1: the index (from 1) of the first token that starts no flag
\* and follows no flag without "=", 0 if there is none
FlagEndIdx(parts) ==
    LET B == {i \in 1..Len(parts) :
                /\ ~StartsWithDashes(parts[i])
                /\ \/ i = 1
                   \/ HasEquals(parts[i - 1])
                   \/ ~StartsWithDashes(parts[i - 1])}
    IN  IF B = {} THEN 0 ELSE Min(B)

\* the flags and the SQL text of the remainder of a "bq query" command
SplitFlagsAndSql(rest) ==
    LET Q == QuotePositions(rest) IN
    IF Cardinality(Q) >= 2
    THEN LET i == Min(Q)
             j == Min(Q \ {i})
             before_sql == strip(SubSeq(rest, 1, i - 1))
         IN  [ok |-> TRUE,
              flags |-> IF before_sql # <<>> THEN shlex_split(before_sql).tokens
                        ELSE <<>>,
              sql |-> SubSeq(rest, i, j)]
    ELSE LET sp == shlex_split(rest) IN
         IF ~sp.ok THEN [ok |-> FALSE, flags |-> <<>>, sql |-> <<>>]
         ELSE LET parts == sp.tokens
                  flag_end_idx == FlagEndIdx(parts)
              IN  IF flag_end_idx >= 1
                  THEN [ok |-> TRUE,
                        flags |-> SubSeq(parts, 1, flag_end_idx - 1),
                        sql |-> join(<<" ">>, SubSeq(parts, flag_end_idx, Len(parts)))]
                  ELSE [ok |-> TRUE, flags |-> <<>>, sql |-> rest]

\* the SQL text left as it is, its quotes kept
KeepQuotes(sql) == sql

\* sql[1:-1] when sql starts and ends with a double quote
Unquote(sql) ==
    IF sql # <<>> /\ sql[1] = "\"" /\ sql[Len(sql)] = "\""
    THEN SubSeq(sql, 2, Len(sql) - 1)
    ELSE sql

RECURSIVE SkipClass(_, _, _)
SkipClass(s, i, C) ==
    IF i <= Len(s) /\ CharClass(s[i]) \in C THEN SkipClass(s, i + 1, C) ELSE i

\* a match of (FROM\s+)(\w+[-\w]*\.\w+\.\w+) whose FROM ends lexeme i: the
\* positions <<first, last + 1>> of the table reference, <<0, 0>> if none
TableRef(s, i) ==
    LET a == SkipSpace(s, i + 1)
        b == SkipClass(s, a, {"w", "-"})
        c == SkipClass(s, b + 1, {"w"})
        d == SkipClass(s, c + 1, {"w"})
    IN  IF /\ EndsWith(s[i], "from")
           /\ a > i + 1
           /\ a <= Len(s)
           /\ CharClass(s[a]) = "w"
           /\ b <= Len(s)
           /\ s[b] = "."
           /\ c > b + 1
           /\ c <= Len(s)
           /\ s[c] = "."
           /\ d > c + 1
        THEN <<a, d>>
        ELSE <<0, 0>>

\* re.sub(r'(FROM\s+)(\w+[-\w]*\.\w+\.\w+)', r'\1`\2`', sql, flags=re.IGNORECASE)
RECURSIVE SubTableRefs(_, _)
SubTableRefs(s, i) ==
    IF i > Len(s) THEN <<>>
    ELSE LET m == TableRef(s, i) IN
         IF m = <<0, 0>> THEN <<s[i]>> \o SubTableRefs(s, i + 1)
         ELSE SubSeq(s, i, m[1] - 1) \o <<Backtick>> \o SubSeq(s, m[1], m[2] - 1)
              \o <<Backtick>> \o SubTableRefs(s, m[2])

\* the SQL text without any insertion
LeaveSql(sql) == sql

\* the backtick insertion of handle_bigquery_query
AddBackticks(sql) ==
    IF /\ \A i \in 1..Len(sql) : sql[i] # Backtick
       /\ \E i \in 1..Len(sql) : TableRef(sql, i) # <<0, 0>>
    THEN SubTableRefs(sql, 1)
    ELSE sql

\* args with the default format flag appended unless a token starts with --format
WithDefaultFormat(args) ==
    IF \E i \in 1..Len(args) : StartsWithFormat(args[i])
    THEN args
    ELSE Append(args, <<"--format=json">>)

handle_bigquery_query(command, bq_path) ==
    LET cmd_parts == split_maxsplit2(command) IN
    IF Len(cmd_parts) < 3
    THEN Return([status |-> "error",
                 error_message |->
                     <<"Invalid BigQuery query command. Missing SQL query.">>])
    ELSE LET rest == cmd_parts[3]
             sp == SplitFlagsAndSql(rest)
         IN  IF ~sp.ok THEN Raise("ValueError")
             \* any(arg.startswith(...) for arg in args) reads bq_path first
             ELSE IF bq_path = None THEN Raise("AttributeError")
             ELSE ExecuteSubprocessStart(
                      Append(WithDefaultFormat(<<bq_path, <<"query">>>> \o sp.flags),
                             AddBackticks(Unquote(sp.sql))))

(***************************************************************************)
(* handle_bigquery_command, handle_gcloud_command, execute_gcloud_command  *)
(***************************************************************************)
\* the generic dispatch: tokenize the command after its prefix, append the
\* default format flag unless a token of the command starts with --format
GenericArgs(path, command_args) ==
    IF \E i \in 1..Len(command_args) : StartsWithFormat(command_args[i])
    THEN <<path>> \o command_args
    ELSE <<path>> \o command_args \o << <<"--format=json">> >>

handle_bigquery_command(command, bq_path) ==
    LET sp == shlex_split(SubSeq(command, 3, Len(command))) IN
    IF ~sp.ok THEN Raise("ValueError")
    ELSE ExecuteSubprocessStart(GenericArgs(bq_path, sp.tokens))

handle_gcloud_command(command, gcloud_path) ==
    LET sp == shlex_split(SubSeq(command, 3, Len(command))) IN
    IF ~sp.ok THEN Raise("ValueError")
    ELSE ExecuteSubprocessStart(GenericArgs(gcloud_path, sp.tokens))

\* the handler of a router that tries "bq " before "bq query "
DispatchBqFirst(command) ==
    IF startswith(command, <<"bq", " ">>) THEN "handle_bigquery_command"
    ELSE IF startswith(command, <<"bq", " ", "query", " ">>) THEN "handle_bigquery_query"
    ELSE IF startswith(command, <<"gcloud", " ">>) THEN "handle_gcloud_command"
    ELSE "unsupported"

\* the handler execute_gcloud_command dispatches to
Dispatch(command) ==
    IF startswith(command, <<"bq", " ", "query", " ">>) THEN "handle_bigquery_query"
    ELSE IF startswith(command, <<"bq", " ">>) THEN "handle_bigquery_command"
    ELSE IF startswith(command, <<"gcloud", " ">>) THEN "handle_gcloud_command"
    ELSE "unsupported"

execute_gcloud_command(command, env) ==
    LET gcloud_path == env.GCLOUD_PATH
        bq_path == env.BQ_PATH
        h == Dispatch(command)
    IN  CASE h = "handle_bigquery_query" -> handle_bigquery_query(command, bq_path)
          [] h = "handle_bigquery_command" -> handle_bigquery_command(command, bq_path)
          [] h = "handle_gcloud_command" -> handle_gcloud_command(command, gcloud_path)
          [] OTHER -> Return([status |-> "error",
                              error_message |->
                                  <<"Unsupported command format: ">> \o command])

(***************************************************************************)
(* The regular expressions of gcp_tool.  Each is a sequence of words       *)
(* separated by \s+, some of them optional, matched case-insensitively     *)
(* anywhere in the text (re.search): the first word may end a longer       *)
(* lexeme.  The inputs hold no newline, so "." matches every lexeme.       *)
(***************************************************************************)
W(alt) == [alt |-> alt, opt |-> FALSE]
O(alt) == [alt |-> alt, opt |-> TRUE]

\* lexeme c matches the word el; loose: the word may be the end of the lexeme
WordAt(el, c, loose) ==
    \E w \in el.alt : IF loose THEN EndsWith(c, w) ELSE Lower(c) = w

\* the positions just after the last word when the words pat[k..] are matched
\* from position i on; an optional word is tried and skipped ((?:word\s+)?)
RECURSIVE MatchWords(_, _, _, _, _)
MatchWords(pat, k, s, i, loose) ==
    LET here == i <= Len(s) /\ WordAt(pat[k], s[i], loose)
        taken == IF ~here THEN {}
                 ELSE IF k = Len(pat) THEN {i + 1}
                 ELSE IF i + 1 <= Len(s) /\ IsSpace(s[i + 1])
                 THEN MatchWords(pat, k + 1, s, SkipSpace(s, i + 1), FALSE)
                 ELSE {}
        skipped == IF pat[k].opt THEN MatchWords(pat, k + 1, s, i, FALSE) ELSE {}
    IN  taken \cup skipped

\* re.search(pattern, s, re.IGNORECASE) is not None
search(pat, s) == \E i \in 1..Len(s) : MatchWords(pat, 1, s, i, TRUE) # {}

\* the start of the group of a trailing \s+(.+) after position e - 1,
\* 0 if it does not match: \s+ is greedy but leaves one lexeme to the group
RestStart(s, e) ==
    LET n == SkipSpace(s, e) IN
    IF n = e THEN 0
    ELSE IF n <= Len(s) THEN n
    ELSE IF n - e >= 2 THEN Len(s)
    ELSE 0

\* pattern\s+(.+): the group of the leftmost match
RestGroup(pat, s) ==
    LET M == {i \in 1..Len(s) :
                \E e \in MatchWords(pat, 1, s, i, TRUE) : RestStart(s, e) # 0}
    IN  IF M = {} THEN [found |-> FALSE, group |-> <<>>]
        ELSE LET i == Min(M)
                 e == CHOOSE e \in MatchWords(pat, 1, s, i, TRUE) : RestStart(s, e) # 0
             IN  [found |-> TRUE, group |-> SubSeq(s, RestStart(s, e), Len(s))]

\* pattern\s+(\S+): the group of the leftmost match
WordGroup(pat, s) ==
    LET ok(e) == SkipSpace(s, e) > e /\ SkipSpace(s, e) <= Len(s)
        M == {i \in 1..Len(s) : \E e \in MatchWords(pat, 1, s, i, TRUE) : ok(e)}
    IN  IF M = {} THEN [found |-> FALSE, group |-> <<>>]
        ELSE LET i == Min(M)
                 e == CHOOSE e \in MatchWords(pat, 1, s, i, TRUE) : ok(e)
                 n == SkipSpace(s, e)
             IN  [found |-> TRUE, group |-> SubSeq(s, n, SkipWord(s, n) - 1)]

PatListProjects == <<W({"list"}), O({"all"}), O({"gcp"}), W({"projects"})>>
PatListInstances == <<W({"list"}), O({"all"}), O({"gcp"}), W({"instances"})>>
PatListBuckets == <<W({"list"}), O({"all"}), O({"gcp"}), W({"buckets"})>>
PatDescribeProject == <<W({"describe"}), W({"project"})>>
PatListServices == <<W({"list"}), O({"all"}), W({"services"})>>
PatListRegions == <<W({"list"}), O({"all"}), O({"gcp"}), W({"regions"})>>
PatListZones == <<W({"list"}), O({"all"}), O({"gcp"}), W({"zones"})>>
PatListBillingAccounts ==
    <<W({"list"}), O({"all"}), W({"billing"}), W({"accounts"})>>
PatDatasets ==
    <<W({"show", "list"}), O({"all"}), W({"bigquery", "bq"}), W({"datasets"})>>
PatTables ==
    <<W({"show", "list"}), O({"all"}), W({"bigquery", "bq"}), W({"tables"})>>
PatInProject == <<W({"in"}), W({"project"})>>
PatInDataset == <<W({"in"}), W({"dataset"})>>

\* verb\s+billing\s+account\s+(.+?)\s+prep\s+project\s+(.+): the matches as
\* <<i, g, h, n>>: the verb ends lexeme i, group 1 is s[g..h-1] and group 2
\* is s[n..]
LinkMatches(s, verbs, preps) ==
    LET Starts == UNION {{<<i, e>> : e \in MatchWords(
                             <<W(verbs), W({"billing"}), W({"account"})>>,
                             1, s, i, TRUE)} : i \in 1..Len(s)}
        Tail2(h) == {RestStart(s, e2) : e2 \in MatchWords(
                             <<W(preps), W({"project"})>>,
                             1, s, SkipSpace(s, h), FALSE)} \ {0}
        From(st) ==
            UNION {{<<st[1], gh[1], gh[2], n>> : n \in Tail2(gh[2])} :
                   gh \in {x \in ((st[2] + 1)..SkipSpace(s, st[2])) \X (1..Len(s)) :
                              x[1] < x[2] /\ IsSpace(s[x[2]])}}
    IN  UNION {From(st) : st \in Starts}

\* the match re.search returns: the leftmost start, the first \s+ greedy,
\* (.+?) lazy
LinkBest(M) ==
    CHOOSE m \in M : \A o \in M :
        \/ m[1] < o[1]
        \/ m[1] = o[1] /\ m[2] > o[2]
        \/ m[1] = o[1] /\ m[2] = o[2] /\ m[3] <= o[3]

\* the three phrasings of the billing link rule
LinkRuleMatches(s) ==
    \/ LinkMatches(s, {"link"}, {"to"}) # {}
    \/ LinkMatches(s, {"set"}, {"for"}) # {}
    \/ LinkMatches(s, {"connect"}, {"to"}) # {}

\* billing_account_id and project_id of the billing link rule
LinkIdsKeepPrefix(s) ==
    LET m == LinkBest(LinkMatches(s, {"link", "set", "connect"}, {"to", "for"}))
    IN  [billing_account_id |-> strip(SubSeq(s, m[2], m[3] - 1)),
         project_id |-> strip(SubSeq(s, m[4], Len(s)))]

LinkIds(s) ==
    LET m == LinkBest(LinkMatches(s, {"link", "set", "connect"}, {"to", "for"}))
        id == strip(SubSeq(s, m[2], m[3] - 1))
    IN  [billing_account_id |->
             IF startswith(id, <<"billingAccounts", "/">>) THEN AfterLastSlash(id)
             ELSE id,
         project_id |-> strip(SubSeq(s, m[4], Len(s)))]

(***************************************************************************)
(* get_suggested_commands                                                  *)
(***************************************************************************)
\* re.search(r'k1|k2|...', query, re.IGNORECASE) for keywords K
Mentions(query, K) ==
    \E i \in 1..Len(query) : Substrings(Lower(query[i])) \cap K # {}

When(cond, items) == IF cond THEN items ELSE <<>>

GenericSuggestions ==
    <<"gcloud projects list", "gcloud compute instances list", "gcloud storage ls",
      "gcloud compute regions list", "gcloud compute zones list",
      "gcloud services list", "gcloud billing accounts list",
      "gcloud logging read --limit=10", "bq ls">>

\* the list suggestions of get_suggested_commands before the fallback
KeywordSuggestions(query) ==
    LET listing == Mentions(query, {"list", "show", "all"}) IN
    When(Mentions(query, {"project"}) /\ listing, <<"gcloud projects list">>)
    \o When(Mentions(query, {"project"})
            /\ Mentions(query, {"describe", "detail", "info"}),
            <<"gcloud projects describe [PROJECT_ID]">>)
    \o When(Mentions(query, {"instance", "vm", "compute"}) /\ listing,
            <<"gcloud compute instances list">>)
    \o When(Mentions(query, {"storage", "bucket"}) /\ listing, <<"gcloud storage ls">>)
    \o When(Mentions(query, {"region"}) /\ listing, <<"gcloud compute regions list">>)
    \o When(Mentions(query, {"zone"}) /\ listing, <<"gcloud compute zones list">>)
    \o When(Mentions(query, {"service"}) /\ listing,
            <<"gcloud services list", "gcloud services list --project=[PROJECT_ID]">>)
    \o When(Mentions(query, {"billing", "account"}) /\ listing,
            <<"gcloud billing accounts list">>)
    \o When(Mentions(query, {"billing", "account"})
            /\ Mentions(query, {"link", "connect", "set"}),
            <<"gcloud billing projects link [PROJECT_ID] --billing-account=[ACCOUNT_ID]">>)
    \o When(Mentions(query, {"bigquery", "bq", "dataset"})
            /\ Mentions(query, {"dataset"}) /\ listing,
            <<"bq ls", "bq ls --format=json", "bq ls --project=[PROJECT_ID]">>)
    \o When(Mentions(query, {"bigquery", "bq", "dataset"})
            /\ Mentions(query, {"table"}) /\ listing,
            <<"bq ls [DATASET_ID]", "bq ls --project=[PROJECT_ID] [DATASET_ID]">>)
    \o When(Mentions(query, {"log", "logs", "logging"})
            /\ Mentions(query, {"read", "view", "show", "get"}),
            <<"gcloud logging read \"resource.type=gce_instance\" --limit=10",
              "gcloud logging read \"severity>=ERROR\" --project=[PROJECT_ID] --limit=10">>)
    \o When(Mentions(query, {"log", "logs", "logging"}) /\ Mentions(query, {"list"}),
            <<"gcloud logging logs list",
              "gcloud logging logs list --project=[PROJECT_ID]">>)

\* the list suggestions without the generic fallback
SuggestionsNoFallback(query) == KeywordSuggestions(query)

\* the list suggestions of get_suggested_commands when it returns
Suggestions(query) ==
    IF KeywordSuggestions(query) = <<>> THEN GenericSuggestions
    ELSE KeywordSuggestions(query)

\* "\n".join(lines) for one-lexeme lines
RECURSIVE JoinLines(_)
JoinLines(lines) ==
    IF lines = <<>> THEN <<>>
    ELSE IF Len(lines) = 1 THEN <<lines[1]>>
    ELSE <<lines[1], "\n">> \o JoinLines(Tail(lines))

SuggestionHeader ==
    <<"You can try these commands (type the full command to execute directly):", "\n">>

get_suggested_commands(query) == SuggestionHeader \o JoinLines(Suggestions(query))

(***************************************************************************)
(* The subprocess and execute_subprocess.  The standard output of the      *)
(* tool is one of four texts; json.loads parses three of them.             *)
(***************************************************************************)
StdoutEmptyList == <<"[]", "\n">>
StdoutItems ==
    <<"[{\"name\": \"billingAccounts/n1\", \"projectId\": \"id1\"}]", "\n">>
StdoutObject == <<"{\"projectId\": \"id1\"}", "\n">>
StdoutPlain == <<" ", "Updated property.", "\n">>
Stdouts == {StdoutEmptyList, StdoutItems, StdoutObject, StdoutPlain}

\* the standard error of a tool that exits non-zero
StderrText == <<"ERROR: (gcloud) permission denied", "\n">>
Stderrs == {StderrText, <<>>}

Entry(k, v) == [key |-> k, value |-> v]
JsonList(items) == [type |-> "list", items |-> items]
JsonDict(items) == [type |-> "dict", items |-> items]

\* json.loads: ok is FALSE for json.JSONDecodeError
json_loads(stdout) ==
    CASE stdout = StdoutEmptyList -> [ok |-> TRUE, value |-> JsonList(<<>>)]
      [] stdout = StdoutItems ->
            [ok |-> TRUE,
             value |-> JsonList(<<JsonDict(
                 <<Entry("name", <<"billingAccounts", "/", "n1">>),
                   Entry("projectId", <<"id1">>)>>)>>)]
      [] stdout = StdoutObject ->
            [ok |-> TRUE, value |-> JsonDict(<<Entry("projectId", <<"id1">>)>>)]
      [] OTHER -> [ok |-> FALSE, value |-> JsonList(<<>>)]

\* json.dumps(value, indent=2) of a dict of strings, at indentation ind
RECURSIVE DumpEntries(_, _)
DumpEntries(items, ind) ==
    IF items = <<>> THEN <<>>
    ELSE ind \o <<"\"", items[1].key, "\": \"">> \o items[1].value \o <<"\"">>
         \o (IF Len(items) > 1 THEN <<",">> ELSE <<>>) \o <<"\n">>
         \o DumpEntries(Tail(items), ind)

DumpDict(d, ind) ==
    IF d.items = <<>> THEN <<"{}">>
    ELSE <<"{", "\n">> \o DumpEntries(d.items, ind \o <<"  ">>) \o ind \o <<"}">>

RECURSIVE DumpItems(_)
DumpItems(items) ==
    IF items = <<>> THEN <<>>
    ELSE <<"  ">> \o DumpDict(items[1], <<"  ">>)
         \o (IF Len(items) > 1 THEN <<",">> ELSE <<>>) \o <<"\n">>
         \o DumpItems(Tail(items))

json_dumps(value) ==
    IF value.type = "dict" THEN DumpDict(value, <<>>)
    ELSE IF value.items = <<>> THEN <<"[]">>
    ELSE <<"[", "\n">> \o DumpItems(value.items) \o <<"]">>

\* what running the argument vector does: the tool exits with a return code,
\* or it cannot be launched
Exit(returncode, stdout, stderr) ==
    [kind |-> "exit", returncode |-> returncode, stdout |-> stdout, stderr |-> stderr]
LaunchFailure == [kind |-> "launch"]

\* repr of a lexeme: a backslash is doubled
ReprLex(c) ==
    IF <<c>> = DefaultGcloudPath
    THEN "C:\\\\Users\\\\roapp\\\\AppData\\\\Local\\\\Google\\\\Cloud SDK\\\\google-cloud-sdk\\\\bin\\\\gcloud.cmd"
    ELSE c

\* repr of the argument vector in str(CalledProcessError)
RECURSIVE ReprArgs(_)
ReprArgs(args) ==
    IF args = <<>> THEN <<>>
    ELSE <<"'">> \o [i \in 1..Len(args[1]) |-> ReprLex(args[1][i])] \o <<"'">>
         \o (IF Len(args) > 1 THEN <<", ">> ELSE <<>>) \o ReprArgs(Tail(args))

\* str(e) of the subprocess.CalledProcessError for exit status 1
StrCalledProcessError(args) ==
    <<"Command '[">> \o ReprArgs(args) \o <<"]' returned non-zero exit status 1.">>

\* the trimmed standard error, whatever it is
StderrOnly(args, stderr) == strip(stderr)

\* e.stderr.strip() if e.stderr else str(e)
ErrorText(args, stderr) ==
    IF stderr # <<>> THEN strip(stderr) ELSE StrCalledProcessError(args)

\* the Execution Result of execute_subprocess for a tool that exited
execute_subprocess(a, o) ==
    IF o.returncode = 0
    THEN IF json_loads(o.stdout).ok
         THEN [status |-> "success", result |-> json_loads(o.stdout).value]
         ELSE [status |-> "success", result |-> [type |-> "str",
                                                  text |-> strip(o.stdout)]]
    ELSE [status |-> "error",
          error_message |-> ErrorText(a, o.stderr),
          exit_code |-> o.returncode]

(***************************************************************************)
(* gcp_tool: the classifier and the response formatter                     *)
(***************************************************************************)
\* the intent rules of gcp_tool in the order of its if/elif chain
Rules ==
    <<"list_projects", "list_instances", "list_buckets", "describe_project",
      "list_services", "list_regions", "list_zones", "list_billing_accounts",
      "link_billing", "billing_alias", "list_datasets", "list_tables">>

\* the condition of the rule's if/elif
RuleMatches(rule, query) ==
    CASE rule = "list_projects" -> search(PatListProjects, query)
      [] rule = "list_instances" -> search(PatListInstances, query)
      [] rule = "list_buckets" -> search(PatListBuckets, query)
      [] rule = "describe_project" -> RestGroup(PatDescribeProject, query).found
      [] rule = "list_services" -> search(PatListServices, query)
      [] rule = "list_regions" -> search(PatListRegions, query)
      [] rule = "list_zones" -> search(PatListZones, query)
      [] rule = "list_billing_accounts" -> search(PatListBillingAccounts, query)
      [] rule = "link_billing" -> LinkRuleMatches(query)
      [] rule = "billing_alias" ->
            startswith(query, <<"gcloud", " ", "billing", " ">>)
      [] rule = "list_datasets" -> search(PatDatasets, query)
      [] rule = "list_tables" -> search(PatTables, query)

\* the query is a literal command, which gcp_tool executes directly
IsDirect(query) ==
    startswith(query, <<"gcloud", " ">>) \/ startswith(query, <<"bq", " ">>)

\* the rule gcp_tool takes for a natural-language query: the last one that matches
LastRule(query) ==
    LET M == {k \in 1..Len(Rules) : RuleMatches(Rules[k], query)}
    IN  IF M = {} THEN "unrecognized" ELSE Rules[Max(M)]

\* the rule gcp_tool takes for a natural-language query: the first one that matches
FirstRule(query) ==
    LET M == {k \in 1..Len(Rules) : RuleMatches(Rules[k], query)}
    IN  IF M = {} THEN "unrecognized" ELSE Rules[Min(M)]

\* the branch of gcp_tool a query takes
Intent(query) == IF IsDirect(query) THEN "direct" ELSE FirstRule(query)

Words(ws) == join(<<" ">>, [i \in 1..Len(ws) |-> <<ws[i]>>])

\* the optional qualifiers "in project X" and "in dataset Y"
project_match(query) == WordGroup(PatInProject, query)
\* a qualifier "in dataset ds" found in every query
DatasetAlways(query) == [found |-> TRUE, group |-> <<"ds">>]

dataset_match(query) == WordGroup(PatInDataset, query)

\* the rules that execute a command through the router
CommandRules ==
    {"list_projects", "list_instances", "describe_project", "list_services",
     "list_regions", "list_zones", "list_billing_accounts", "link_billing",
     "list_datasets", "list_tables"}

\* the command string the rule hands to execute_gcloud_command
CommandOf(rule, query) ==
    CASE rule = "list_projects" -> Words(<<"gcloud", "projects", "list">>)
      [] rule = "list_instances" -> Words(<<"gcloud", "compute", "instances", "list">>)
      [] rule = "describe_project" ->
            Words(<<"gcloud", "projects", "describe">>) \o <<" ">>
            \o strip(RestGroup(PatDescribeProject, query).group)
      [] rule = "list_services" ->
            IF project_match(query).found
            THEN Words(<<"gcloud", "services", "list", "--project=">>)
                 \o project_match(query).group
            ELSE Words(<<"gcloud", "services", "list">>)
      [] rule = "list_regions" -> Words(<<"gcloud", "compute", "regions", "list">>)
      [] rule = "list_zones" -> Words(<<"gcloud", "compute", "zones", "list">>)
      [] rule = "list_billing_accounts" ->
            Words(<<"gcloud", "billing", "accounts", "list">>)
      [] rule = "link_billing" ->
            Words(<<"gcloud", "billing", "projects", "link">>) \o <<" ">>
            \o LinkIds(query).project_id \o <<" ", "--billing-account=">>
            \o LinkIds(query).billing_account_id
      [] rule = "list_datasets" ->
            IF project_match(query).found
            THEN Words(<<"bq", "ls", "--project=">>) \o project_match(query).group
            ELSE Words(<<"bq", "ls">>)
      [] rule = "list_tables" ->
            IF project_match(query).found
            THEN Words(<<"bq", "ls", "--project=">>) \o project_match(query).group
                 \o <<" ">> \o dataset_match(query).group
            ELSE Words(<<"bq", "ls">>) \o <<" ">> \o dataset_match(query).group

\* item.get(key, default) of a parsed JSON object
Get(item, key, default) ==
    LET P == {i \in 1..Len(item.items) : item.items[i].key = key}
    IN  IF P = {} THEN default ELSE item.items[Max(P)].value

\* the item formatter of a listing rule
ItemLine(rule, item) ==
    LET U == <<"Unknown">>
        name == Get(item, "name", U)
        status == Get(item, "status", U)
    IN
    CASE rule = "list_projects" ->
            <<"- ">> \o name \o <<" (ID: ">> \o Get(item, "projectId", U) \o <<")">>
      [] rule = "list_instances" ->
            <<"- ">> \o name \o <<" (">> \o Get(item, "zone", U) \o <<", ">>
            \o status \o <<")">>
      [] rule = "list_services" -> <<"- ">> \o name
      [] rule = "list_regions" -> <<"- ">> \o name \o <<" (">> \o status \o <<")">>
      [] rule = "list_zones" ->
            <<"- ">> \o name \o <<" (">> \o Get(item, "region", U) \o <<", ">>
            \o status \o <<")">>
      [] rule = "list_billing_accounts" ->
            <<"- ">> \o Get(item, "displayName", U) \o <<" (ID: ">>
            \o AfterLastSlash(name) \o <<", Open: ">>
            \o Get(item, "open", <<"False">>) \o <<")">>
      [] rule = "list_datasets" ->
            <<"- ">> \o Get(item, "id", U) \o <<" (">> \o Get(item, "location", U)
            \o <<")">>
      [] rule = "list_tables" ->
            <<"- ">> \o Get(item, "tableId", U) \o <<" (">>
            \o Get(item, "type", <<"TABLE">>) \o <<")">>

\* project_info of the services, datasets and tables rules
project_info(query) ==
    IF project_match(query).found
    THEN <<" ", "in", " ", "project", " ">> \o project_match(query).group
    ELSE <<>>

\* the title the rule gives _format_list_response
Title(rule, query) ==
    CASE rule = "list_projects" -> <<"Available", " ", "GCP", " ", "projects">>
      [] rule = "list_instances" -> <<"Available", " ", "compute", " ", "instances">>
      [] rule = "list_services" -> <<"Available", " ", "services">> \o project_info(query)
      [] rule = "list_regions" -> <<"Available", " ", "GCP", " ", "regions">>
      [] rule = "list_zones" -> <<"Available", " ", "GCP", " ", "zones">>
      [] rule = "list_billing_accounts" ->
            <<"Available", " ", "billing", " ", "accounts">>
      [] rule = "list_datasets" ->
            <<"BigQuery", " ", "datasets">> \o project_info(query)
      [] rule = "list_tables" ->
            <<"Tables", " ", "in", " ", "dataset", " ">> \o dataset_match(query).group
            \o project_info(query)

RECURSIVE ItemLines(_, _)
ItemLines(rule, items) ==
    IF items = <<>> THEN <<>>
    ELSE ItemLine(rule, items[1])
         \o (IF Len(items) > 1 THEN <<"\n">> ELSE <<>>)
         \o ItemLines(rule, Tail(items))

\* the text for an empty listing, with the title as given
EmptyListTextVerbatim(title) == <<"No", " ">> \o title \o <<" ", "found.">>

\* the text of _format_list_response for an empty listing
EmptyListText(title) == <<"No", " ">> \o lower(title) \o <<" ", "found.">>

_format_list_response(items, title, rule) ==
    IF items = <<>> THEN EmptyListText(title)
    ELSE title \o <<":", "\n">> \o ItemLines(rule, items)

\* the report of a listing rule for a result that is a list
ListReport(rule, query, items) ==
    IF rule = "list_datasets" /\ items = <<>>
    THEN <<"No", " ", "BigQuery", " ", "datasets", " ", "found">>
         \o project_info(query) \o <<".">>
    ELSE IF rule = "list_tables" /\ items = <<>>
    THEN <<"No", " ", "tables", " ", "found", " ", "in", " ", "dataset", " ">>
         \o dataset_match(query).group \o project_info(query) \o <<".">>
    ELSE _format_list_response(items, Title(rule, query), rule)

ListingRules ==
    {"list_projects", "list_instances", "list_services", "list_regions",
     "list_zones", "list_billing_accounts", "list_datasets", "list_tables"}

IsStructured(result) == result.type \in {"list", "dict"}

Report(text) == [status |-> "success", report |-> text]

\* the response of the direct branch to an Execution Result
DirectResponse(query, result) ==
    IF result.status = "success"
    THEN Report(<<"Command executed successfully:", "\n">>
                \o IF IsStructured(result.result) THEN json_dumps(result.result)
                   ELSE result.result.text)
    ELSE [status |-> "error",
          error_message |-> <<"Error executing command: ">> \o result.error_message,
          suggested_commands |-> get_suggested_commands(query)]

\* the response of a rule to the Execution Result of its command
RuleResponse(rule, query, result) ==
    IF rule \in ListingRules
    THEN IF result.status = "success" /\ result.result.type = "list"
         THEN Report(ListReport(rule, query, result.result.items))
         ELSE result
    ELSE IF rule = "link_billing" /\ result.status = "success"
    THEN Report(<<"Successfully linked billing account '">>
                \o LinkIds(query).billing_account_id \o <<"' to project '">>
                \o LinkIds(query).project_id \o <<"'.">>)
    ELSE result

\* what the caller gets for the Execution Result of the command
Respond(e, rule, q, result) ==
    IF e = "execute_gcloud_command" THEN result
    ELSE IF rule = "direct" THEN DirectResponse(q, result)
    ELSE RuleResponse(rule, q, result)

\* the response of the "list buckets" rule to the exit of its subprocess
BucketsResponse(a, o) ==
    IF o.returncode = 0
    THEN Report(<<"Here are the available storage buckets:", "\n">>
                \o strip(o.stdout))
    ELSE [status |-> "error",
          error_message |-> ErrorText(a, o.stderr),
          exit_code |-> o.returncode]

NoDatasetResponse ==
    [status |-> "error",
     error_message |->
         <<"Please specify a dataset. For example: 'Show BigQuery tables in dataset my_dataset'.">>,
     suggested_commands |->
         <<"You might want to try these commands:", "\n", "bq ls [DATASET_ID]", "\n",
           "bq ls --project=[PROJECT_ID] [DATASET_ID]">>]

UnrecognizedResponse(query) ==
    [status |-> "error",
     error_message |->
         <<"I'm not sure how to process your query: '">> \o query
         \o <<"'. Try asking about listing projects, instances, buckets, regions, zones, services, billing accounts, or BigQuery datasets and tables.">>,
     suggested_commands |-> get_suggested_commands(query)]

(***************************************************************************)
(* The inputs.                                                             *)
(***************************************************************************)
BillingIds == {<<"a", "-", "1">>, <<"billingAccounts", "/", "a", "-", "1">>}
ProjectIds == {<<"P1">>, <<"p", "-", "1">>}

\* "link billing account A to project P"
NLLink(A, P) ==
    Words(<<"link", "billing", "account">>) \o <<" ">> \o A
    \o <<" ", "to", " ", "project", " ">> \o P

\* "gcloud billing projects link P --billing-account=A"
LiteralLink(A, P) ==
    Words(<<"gcloud", "billing", "projects", "link">>) \o <<" ">> \o P
    \o <<" ", "--billing-account=">> \o A

Phrases ==
    {Words(<<"list", "projects">>),
     <<"LIST", " ", " ", "all", " ", "gcp", " ", "projects">>,
     Words(<<"list", "instances">>),
     Words(<<"list", "buckets">>),
     Words(<<"describe", "project", "P1">>),
     Words(<<"list", "all", "services">>),
     Words(<<"list", "regions">>),
     Words(<<"list", "zones">>),
     Words(<<"list", "billing", "accounts">>),
     Words(<<"set", "billing", "account">>) \o <<" ", "a", "-", "1", " ">>
         \o Words(<<"for", "project", "P1">>),
     Words(<<"connect", "billing", "account">>) \o <<" ", "a", "-", "1", " ">>
         \o Words(<<"to", "project", "P1">>),
     Words(<<"show", "bq", "datasets">>),
     Words(<<"list", "bigquery", "tables">>),
     Words(<<"asdkjasd">>),
     Words(<<"show", "logs">>)}
    \cup {NLLink(A, P) : A \in BillingIds, P \in ProjectIds}

SuffixPhrases ==
    {Words(<<"in", "project", "P1">>),
     Words(<<"in", "dataset", "ds">>),
     Words(<<"list", "projects">>),
     Words(<<"list", "zones">>),
     Words(<<"asdkjasd">>)}

\* base followed by the chunks, each after one space
RECURSIVE WithChunks(_, _)
WithChunks(base, chunks) ==
    IF chunks = <<>> THEN base
    ELSE WithChunks(base \o <<" ">> \o chunks[1], Tail(chunks))

Extended(Bases, Chunks, max) ==
    UNION {{WithChunks(b, cs) : b \in Bases, cs \in [1..n -> Chunks]} : n \in 0..max}

NLQueries == Extended(Phrases, SuffixPhrases, MaxSuffix)

GenericBases ==
    {Words(<<"gcloud", "projects", "list">>),
     Words(<<"gcloud", "billing", "accounts", "list">>),
     Words(<<"bq", "ls">>)}
    \cup {LiteralLink(A, P) : A \in BillingIds, P \in ProjectIds}

GenericChunks ==
    {<<"--format=json">>, <<"--format=csv">>, <<"\"">>, <<"\"", "a", " ", "1", "\"">>}

QueryBases == {Words(<<"bq", "query">>), <<"bq", " ", "query", " ">>}

QueryChunks ==
    {<<"--format=csv">>, <<"--dataset=ds">>, <<"--quiet">>, <<"SELECT">>, <<"\"">>,
     <<"\"", "SELECT", " ", "1", "\"">>,
     <<"\"", "SELECT", " ", "FROM", " ", "p", "-", "1", ".", "d", ".", "t", "\"">>,
     <<"\"", "FROM", " ", Backtick, "p", "-", "1", ".", "d", ".", "t", Backtick, "\"">>,
     <<"from", " ", "p", ".", "d", ".", "t">>}

LiteralCommands ==
    Extended(GenericBases, GenericChunks, MaxExtra)
    \cup Extended(QueryBases, QueryChunks, MaxExtra)

\* texts with none of the literal-command prefixes
OtherCommands == {Words(<<"kubectl", "get">>), <<"gcloud">>, <<"bq">>, <<>>}

\* the arguments of gcp_tool and of execute_gcloud_command
Queries == NLQueries \cup LiteralCommands \cup OtherCommands
Commands == LiteralCommands \cup OtherCommands \cup Phrases

Environments ==
    [GCLOUD_PATH : {GcloudPath, None}, BQ_PATH : {BqPath, None}]

(***************************************************************************)
(* The state machine: one call of gcp_tool or of execute_gcloud_command,   *)
(* from the call to its return or to the exception that leaves it.         *)
(***************************************************************************)
VARIABLES
    pc,         \* "idle", "subprocess" (waiting in subprocess.run), "done", "raised"
    environ,    \* os.environ: GCLOUD_PATH and BQ_PATH
    entry,      \* the function called: "gcp_tool" or "execute_gcloud_command"
    query,      \* its argument
    intent,     \* the branch of gcp_tool taken
    command,    \* the command string given to the router
    handler,    \* the handler the router dispatched to
    args,       \* the argument vector given to subprocess.run
    launches,   \* the number of calls of subprocess.run
    outcome,    \* what the subprocess did: its exit, or a failure to launch
    response,   \* the value returned
    exception   \* the exception that left the call

vars ==
    <<pc, environ, entry, query, intent, command, handler, args, launches,
      outcome, response, exception>>

NoResponse == [status |-> "none"]
NoOutcome == [kind |-> "none"]

Init ==
    /\ pc = "idle"
    /\ environ \in Environments
    /\ entry = "none"
    /\ query = <<>>
    /\ intent = "none"
    /\ command = <<>>
    /\ handler = "none"
    /\ args = <<>>
    /\ launches = 0
    /\ outcome = NoOutcome
    /\ response = NoResponse
    /\ exception = "none"

\* the call execute_gcloud_command(cmd) made for entry e, rule r, argument q
Route(e, r, q, cmd) ==
    LET x == execute_gcloud_command(cmd, environ) IN
    /\ entry' = e
    /\ intent' = r
    /\ query' = q
    /\ command' = cmd
    /\ handler' = Dispatch(cmd)
    /\ pc' = CASE x.kind = "run" -> "subprocess"
               [] x.kind = "return" -> "done"
               [] OTHER -> "raised"
    /\ args' = IF x.kind = "run" THEN x.args ELSE args
    /\ launches' = IF x.kind = "run" THEN launches + 1 ELSE launches
    /\ response' = IF x.kind = "return" THEN Respond(e, r, q, x.result) ELSE response
    /\ exception' = IF x.kind = "raise" THEN x.exc ELSE exception
    /\ UNCHANGED <<environ, outcome>>

\* a response without any command
Answer(r, q, resp) ==
    /\ entry' = "gcp_tool"
    /\ intent' = r
    /\ query' = q
    /\ pc' = "done"
    /\ response' = resp
    /\ UNCHANGED <<environ, command, handler, args, launches, outcome, exception>>

\* gcp_tool(q) for a literal command
GcpToolDirect(q) ==
    /\ pc = "idle"
    /\ Intent(q) = "direct"
    /\ Route("gcp_tool", "direct", q, q)

\* gcp_tool(q) for a query whose rule executes a command
GcpToolRule(q) ==
    /\ pc = "idle"
    /\ Intent(q) \in CommandRules
    /\ Intent(q) = "list_tables" => dataset_match(q).found
    /\ Route("gcp_tool", Intent(q), q, CommandOf(Intent(q), q))

\* gcp_tool(q) for "list buckets": subprocess.run without the router
GcpToolBuckets(q) ==
    /\ pc = "idle"
    /\ Intent(q) = "list_buckets"
    /\ entry' = "gcp_tool"
    /\ intent' = "list_buckets"
    /\ query' = q
    /\ pc' = "subprocess"
    /\ args' = <<IF environ.GCLOUD_PATH = None THEN DefaultGcloudPath
                 ELSE environ.GCLOUD_PATH,
                 <<"storage">>, <<"ls">>, <<"--format=gsutil">>>>
    /\ launches' = launches + 1
    /\ UNCHANGED <<environ, command, handler, outcome, response, exception>>

\* gcp_tool(q) for "list BigQuery tables" without a dataset
GcpToolNoDataset(q) ==
    /\ pc = "idle"
    /\ Intent(q) = "list_tables"
    /\ ~dataset_match(q).found
    /\ Answer("list_tables", q, NoDatasetResponse)

\* gcp_tool(q) for a query no rule matches
GcpToolUnrecognized(q) ==
    /\ pc = "idle"
    /\ Intent(q) = "unrecognized"
    /\ Answer("unrecognized", q, UnrecognizedResponse(q))

\* execute_gcloud_command(cmd) called by itself
ExecuteGcloudCommand(cmd) ==
    /\ pc = "idle"
    /\ Route("execute_gcloud_command", "none", cmd, cmd)

\* the tool ran and exited: the rest of execute_subprocess and of the caller
Exited(o) ==
    /\ pc = "subprocess"
    /\ pc' = "done"
    /\ outcome' = o
    /\ response' = IF intent = "list_buckets" THEN BucketsResponse(args, o)
                   ELSE Respond(entry, intent, query, execute_subprocess(args, o))
    /\ UNCHANGED <<environ, entry, query, intent, command, handler, args,
                   launches, exception>>

ProcessExitsZero(stdout) == Exited(Exit(0, stdout, <<>>))

ProcessExitsNonZero(stderr) == Exited(Exit(1, <<>>, stderr))

\* subprocess.run raises FileNotFoundError for a tool that is not at its
\* path; nothing catches it
LaunchFails ==
    /\ pc = "subprocess"
    /\ pc' = "raised"
    /\ exception' = "FileNotFoundError"
    /\ outcome' = LaunchFailure
    /\ UNCHANGED <<environ, entry, query, intent, command, handler, args,
                   launches, response>>

Next ==
    \/ \E q \in Queries : GcpToolDirect(q)
    \/ \E q \in Queries : GcpToolRule(q)
    \/ \E q \in Queries : GcpToolBuckets(q)
    \/ \E q \in Queries : GcpToolNoDataset(q)
    \/ \E q \in Queries : GcpToolUnrecognized(q)
    \/ \E cmd \in Commands : ExecuteGcloudCommand(cmd)
    \/ \E stdout \in Stdouts : ProcessExitsZero(stdout)
    \/ \E stderr \in Stderrs : ProcessExitsNonZero(stderr)
    \/ LaunchFails

Spec == Init /\ [][Next]_vars

(***************************************************************************)
(* The properties.                                                         *)
(***************************************************************************)
\* the router has built an argument vector and handed it to subprocess.run
Routed == handler # "none" /\ launches = 1

\* the tokens of the argument vector that start with "--format"
FormatTokens == {i \in 1..Len(args) : StartsWithFormat(args[i])}

\* the "--format" flags written in the command string
SuppliedFormats ==
    {command[i] : i \in {j \in 1..Len(command) : LexStartsWithFormat(command[j])}}

\* C1: every argument vector the router hands to the executor holds exactly
\* one token that starts with "--format", however many the command holds.
C1_ExactlyOneFormat == Routed => Cardinality(FormatTokens) = 1

\* C2: "--format=json" is added exactly when the command supplies no
\* "--format" flag; a flag the command supplies anywhere is in the argument
\* vector, and then no "--format=json" is added.
C2_DefaultFormatOnlyWhenAbsent ==
    Routed =>
        IF SuppliedFormats = {}
        THEN Cardinality({i \in 1..Len(args) : args[i] = <<"--format=json">>}) = 1
        ELSE /\ \A f \in SuppliedFormats : \E i \in 1..Len(args) : args[i] = <<f>>
             /\ Cardinality({i \in 1..Len(args) : args[i] = <<"--format=json">>})
                    = Cardinality({j \in 1..Len(command) :
                                       command[j] = "--format=json"})

\* C3: no call leaves gcp_tool or execute_gcloud_command by an exception:
\* every failure is returned as a response with status "error".
C3_NoUncaughtFailure ==
    /\ pc # "raised"
    /\ pc = "done" => response.status \in {"success", "error"}

\* the command of the call exited with a non-zero code
ExecutionError ==
    pc = "done" /\ launches = 1 /\ outcome.kind = "exit" /\ outcome.returncode # 0

\* C4: when the command gcp_tool executed exits with an error, its response
\* has status "error" and the suggested_commands of the Suggestion Engine for
\* the original input, for a literal command and for a query alike.
C4_ExecutionErrorCarriesSuggestions ==
    (entry = "gcp_tool" /\ ExecutionError) =>
        /\ response.status = "error"
        /\ "suggested_commands" \in DOMAIN response
        /\ response.suggested_commands = get_suggested_commands(query)

\* C5: every success response of gcp_tool carries a report, none the bare
\* result of the executor.
C5_SuccessCarriesReport ==
    (entry = "gcp_tool" /\ pc = "done" /\ response.status = "success") =>
        /\ "report" \in DOMAIN response
        /\ "result" \notin DOMAIN response

\* the call made the invocation the router makes for the command cmd, or none
\* where the router makes none
SameInvocation(cmd) ==
    LET x == execute_gcloud_command(cmd, environ)
    IN  IF x.kind = "run" THEN launches = 1 /\ args = x.args
        ELSE launches = 0 /\ pc # "subprocess"

ClaimedOrder ==
    <<"list_projects", "list_instances", "list_buckets", "describe_project",
      "list_services", "list_regions", "list_zones", "list_billing_accounts",
      "link_billing", "list_datasets", "list_tables">>

\* C7: a query takes the first rule of the order that matches it: the command
\* executed is that rule's, and no second command is executed.
C7_FirstMatchWins ==
    (entry = "gcp_tool" /\ ~IsDirect(query)) =>
        \A k \in 1..Len(ClaimedOrder) :
            (/\ RuleMatches(ClaimedOrder[k], query)
             /\ \A j \in 1..(k - 1) : ~RuleMatches(ClaimedOrder[j], query))
            => /\ intent = ClaimedOrder[k]
               /\ launches <= 1
               /\ launches = 1 =>
                    IF ClaimedOrder[k] = "list_buckets"
                    THEN SubSeq(args, 2, 3) = <<<<"storage">>, <<"ls">>>>
                    ELSE command = CommandOf(ClaimedOrder[k], query)

C7_Witness ==
    /\ pc = "done"
    /\ query = Words(<<"list", "zones", "list", "projects">>)
    /\ RuleMatches("list_zones", query)
    /\ intent = "list_projects"
    /\ command = Words(<<"gcloud", "projects", "list">>)
    /\ launches = 1

\* a listing rule's command succeeded and printed an empty list
EmptyListing ==
    /\ pc = "done"
    /\ entry = "gcp_tool"
    /\ intent \in ListingRules
    /\ outcome = Exit(0, StdoutEmptyList, <<>>)

\* C8 as stated: the report of an empty listing is "No <title> found." with
\* the title that heads the non-empty listing.
C8_EmptyListingTitleVerbatim ==
    EmptyListing =>
        response = Report(<<"No", " ">> \o Title(intent, query) \o <<" ", "found.">>)

\* C8: the report of an empty listing is "No <title> found." with the title in
\* lower case for projects, instances, services, regions, zones and billing
\* accounts; "No BigQuery datasets found<qualifier>." for datasets and
\* "No tables found in dataset <D><qualifier>." for tables.
C8_EmptyListingText ==
    EmptyListing =>
        response = Report(
            CASE intent = "list_projects" ->
                    <<"No", " ", "available", " ", "gcp", " ", "projects", " ", "found.">>
              [] intent = "list_instances" ->
                    <<"No", " ", "available", " ", "compute", " ", "instances", " ",
                      "found.">>
              [] intent = "list_services" ->
                    <<"No", " ", "available", " ", "services">>
                    \o lower(project_info(query)) \o <<" ", "found.">>
              [] intent = "list_regions" ->
                    <<"No", " ", "available", " ", "gcp", " ", "regions", " ", "found.">>
              [] intent = "list_zones" ->
                    <<"No", " ", "available", " ", "gcp", " ", "zones", " ", "found.">>
              [] intent = "list_billing_accounts" ->
                    <<"No", " ", "available", " ", "billing", " ", "accounts", " ",
                      "found.">>
              [] intent = "list_datasets" ->
                    <<"No", " ", "BigQuery", " ", "datasets", " ", "found">>
                    \o project_info(query) \o <<".">>
              [] intent = "list_tables" ->
                    <<"No", " ", "tables", " ", "found", " ", "in", " ", "dataset", " ">>
                    \o dataset_match(query).group \o project_info(query) \o <<".">>)

C8_Witness ==
    /\ EmptyListing
    /\ intent = "list_services"
    /\ query = Words(<<"list", "all", "services", "in", "project", "P1">>)
    /\ response.report =
           <<"No", " ", "available", " ", "services", " ", "in", " ", "project", " ",
             "p1", " ", "found.">>

\* text holds part as a contiguous run of lexemes
Contains(text, part) ==
    \E i \in 1..(Len(text) - Len(part) + 1) :
        SubSeq(text, i, i + Len(part) - 1) = part

\* the query is no literal command and no rule matches it
Unrecognized(q) ==
    /\ ~startswith(q, <<"gcloud", " ">>)
    /\ ~startswith(q, <<"bq", " ">>)
    /\ \A k \in 1..Len(ClaimedOrder) : ~RuleMatches(ClaimedOrder[k], q)

\* C9: a query that is no literal command and that no rule matches gets an
\* error response whose message holds the query verbatim and whose
\* suggested_commands lists at least one command; the Suggestion Engine gives
\* no input an empty list.
C9_UnrecognizedSuggests ==
    /\ entry = "gcp_tool" => Suggestions(query) # <<>>
    /\ (entry = "gcp_tool" /\ Unrecognized(query)) =>
        /\ pc = "done"
        /\ launches = 0
        /\ response.status = "error"
        /\ Contains(response.error_message, query)
        /\ Len(response.suggested_commands) > Len(SuggestionHeader)
        /\ SubSeq(response.suggested_commands, 1, Len(SuggestionHeader))
               = SuggestionHeader

C9_Witness ==
    /\ pc = "done"
    /\ query = <<"asdkjasd">>
    /\ response.status = "error"
    /\ response.suggested_commands = SuggestionHeader \o JoinLines(GenericSuggestions)

\* C10: the router gives a command to the handler of the first of the
\* prefixes "bq query ", "bq ", "gcloud " it starts with, and to that handler
\* only; a command with none of them gets the error "Unsupported command
\* format" at once, and no subprocess is started.
C10_DispatchOrder ==
    handler # "none" =>
    /\ launches <= 1
    /\ IF startswith(command, <<"bq", " ", "query", " ">>)
       THEN /\ handler = "handle_bigquery_query"
            /\ command = <<"bq", " ", "query", " ">> =>
                    pc = "done" /\ launches = 0 /\ response.status = "error"
       ELSE IF startswith(command, <<"bq", " ">>)
       THEN handler = "handle_bigquery_command"
       ELSE IF startswith(command, <<"gcloud", " ">>)
       THEN handler = "handle_gcloud_command"
       ELSE /\ handler = "unsupported"
            /\ pc = "done"
            /\ launches = 0
            /\ args = <<>>
            /\ response.status = "error"
            /\ response.error_message = <<"Unsupported command format: ">> \o command

C10_Witness ==
    /\ pc = "done"
    /\ entry = "execute_gcloud_command"
    /\ command = Words(<<"kubectl", "get">>)
    /\ handler = "unsupported"
    /\ launches = 0
    /\ response.status = "error"

\* the router gave a "bq query" command to subprocess.run
QueryRouted == handler = "handle_bigquery_query" /\ launches = 1

\* the text of a "bq query" command after "bq", "query" and the whitespace
Remainder == lstrip(SubSeq(command, 4, Len(command)))

\* the positions of the double quotes of the remainder
Quotes == {i \in 1..Len(Remainder) : Remainder[i] = "\""}

HasBacktick(text) == \E i \in 1..Len(text) : text[i] = Backtick

RemoveBackticks(text) == SelectSeq(text, LAMBDA c : c # Backtick)

\* the argument vector is [tool, "query", flags..., default format flag if no
\* flag starts with "--format", body]; the body is as extracted, but for
\* backticks added to a body that had none
QueryArgs(flags, body) ==
    LET fmt == IF \E i \in 1..Len(flags) : StartsWithFormat(flags[i])
               THEN <<>> ELSE << <<"--format=json">> >>
        n == Len(args)
    IN  /\ n = 3 + Len(flags) + Len(fmt)
        /\ SubSeq(args, 1, n - 1) = <<environ.BQ_PATH, <<"query">>>> \o flags \o fmt
        /\ IF HasBacktick(body) THEN args[n] = body
           ELSE RemoveBackticks(args[n]) = body

\* C11: when the remainder of a "bq query" command holds a double-quoted
\* substring, the flags are the shell tokens of the text before it, the body
\* is the substring without its quotes, backticks and whitespace kept, and
\* the argument vector is [tool, "query", flags..., default format flag if
\* needed, body].
C11_QuotedBody ==
    (QueryRouted /\ Cardinality(Quotes) >= 2) =>
        LET i == CHOOSE x \in Quotes : \A y \in Quotes : x <= y
            j == CHOOSE x \in Quotes \ {i} : \A y \in Quotes \ {i} : x <= y
        IN  QueryArgs(shlex_split(SubSeq(Remainder, 1, i - 1)).tokens,
                      SubSeq(Remainder, i + 1, j - 1))

C11_Witness ==
    /\ pc = "subprocess"
    /\ command = Words(<<"bq", "query", "--dataset=ds">>)
                 \o <<" ", "\"", "FROM", " ", Backtick, "p", "-", "1", ".", "d", ".", "t",
                      Backtick, "\"">>
    /\ args = <<BqPath, <<"query">>, <<"--dataset=ds">>, <<"--format=json">>,
                <<"FROM", " ", Backtick, "p", "-", "1", ".", "d", ".", "t", Backtick>>>>

\* the query body handle_bigquery_query extracts from the command
ExtractedBody == Unquote(SplitFlagsAndSql(split_maxsplit2(command)[3]).sql)

\* the positions of the FROM keywords of text that a three-part identifier follows
FromRefs(text) == {i \in 1..Len(text) : TableRef(text, i) # <<0, 0>>}

\* C12: a query body without a backtick reaches the argument vector with each
\* three-part identifier that follows a FROM (in any case) wrapped in one pair
\* of backticks and nothing else changed; a body that holds a backtick
\* reaches it unchanged, so no identifier is wrapped twice.
C12_BacktickInsertion ==
    QueryRouted =>
        LET src == ExtractedBody
            out == args[Len(args)]
        IN  IF HasBacktick(src) THEN out = src
            ELSE /\ RemoveBackticks(out) = src
                 /\ Len(out) = Len(src) + 2 * Cardinality(FromRefs(src))
                 /\ \A i \in FromRefs(src) :
                        LET m == TableRef(src, i) IN
                        Contains(out, SubSeq(src, i, m[1] - 1) \o <<Backtick>>
                                      \o SubSeq(src, m[1], m[2] - 1) \o <<Backtick>>)
                 /\ \A k \in 1..(Len(out) - 1) :
                        ~(out[k] = Backtick /\ out[k + 1] = Backtick)

C12_Witness ==
    /\ pc = "subprocess"
    /\ command = Words(<<"bq", "query">>)
                 \o <<" ", "\"", "SELECT", " ", "FROM", " ", "p", "-", "1", ".", "d", ".",
                      "t", "\"">>
    /\ args[Len(args)] = <<"SELECT", " ", "FROM", " ", Backtick, "p", "-", "1", ".", "d",
                           ".", "t", Backtick>>

\* execute_gcloud_command returned the Execution Result of a tool that exited
ExecutorReturned ==
    pc = "done" /\ entry = "execute_gcloud_command" /\ outcome.kind = "exit"

\* C13: exit code 0 gives status "success" with the parsed value of a standard
\* output that parses and its trimmed text otherwise; a non-zero exit gives
\* status "error" with the trimmed standard error, or the text of the
\* exception when the standard error is empty, and the exit code.
C13_OutcomeMapping ==
    ExecutorReturned =>
        IF outcome.returncode = 0
        THEN /\ DOMAIN response = {"status", "result"}
             /\ response.status = "success"
             /\ outcome.stdout = StdoutEmptyList =>
                    response.result = [type |-> "list", items |-> <<>>]
             /\ outcome.stdout = StdoutItems =>
                    /\ response.result.type = "list"
                    /\ Len(response.result.items) = 1
                    /\ response.result.items[1].type = "dict"
                    /\ Get(response.result.items[1], "projectId", <<>>) = <<"id1">>
             /\ outcome.stdout = StdoutObject =>
                    /\ response.result.type = "dict"
                    /\ Get(response.result, "projectId", <<>>) = <<"id1">>
             /\ outcome.stdout = StdoutPlain =>
                    response.result = [type |-> "str", text |-> <<"Updated property.">>]
        ELSE /\ DOMAIN response = {"status", "error_message", "exit_code"}
             /\ response.status = "error"
             /\ response.exit_code = outcome.returncode
             /\ outcome.stderr = StderrText =>
                    response.error_message = <<"ERROR: (gcloud) permission denied">>
             /\ outcome.stderr = <<>> =>
                    /\ response.error_message # <<>>
                    /\ response.error_message[1] = "Command '["
                    /\ response.error_message[Len(response.error_message)]
                           = "]' returned non-zero exit status 1."

C13_Witness ==
    /\ ExecutorReturned
    /\ outcome = Exit(0, StdoutPlain, <<>>)
    /\ response = [status |-> "success",
                   result |-> [type |-> "str", text |-> <<"Updated property.">>]]

\* gcp_tool returned after its command exited with code 0
ToolSucceeded ==
    pc = "done" /\ entry = "gcp_tool" /\ outcome.kind = "exit" /\ outcome.returncode = 0

\* C14: the literal forms "gcloud billing accounts list" and "gcloud billing
\* projects link P --billing-account=A" get the response of the intent they
\* are an alias of, the billing accounts listing or the link confirmation,
\* not the response of a literal command.
C14_BillingAliasPath ==
    ToolSucceeded =>
        /\ (/\ query = Words(<<"gcloud", "billing", "accounts", "list">>)
            /\ outcome.stdout = StdoutEmptyList)
           => /\ intent # "direct"
              /\ response = Report(<<"No", " ", "available", " ", "billing", " ",
                                     "accounts", " ", "found.">>)
        /\ \A A \in BillingIds, P \in ProjectIds :
               query = LiteralLink(A, P) =>
                   /\ intent # "direct"
                   /\ response = Report(<<"Successfully linked billing account '">>
                                        \o AfterLastSlash(A) \o <<"' to project '">>
                                        \o P \o <<"'.">>)

\* C15: when the remainder of a "bq query" command holds no double-quoted
\* substring, its shell tokens before the first token that starts without
\* "--" and has no predecessor, or one that holds "=" or starts without "--",
\* are the flags, and the tokens from there on, joined by single spaces, are
\* the body; when there is no such token the whole remainder is the body and
\* there are no flags.
C15_UnquotedBoundary ==
    (QueryRouted /\ Cardinality(Quotes) < 2) =>
        LET parts == shlex_split(Remainder).tokens
            B == {i \in 1..Len(parts) :
                    /\ ~StartsWithDashes(parts[i])
                    /\ \/ i = 1
                       \/ HasEquals(parts[i - 1])
                       \/ ~StartsWithDashes(parts[i - 1])}
        IN  IF B # {}
            THEN LET b == CHOOSE x \in B : \A y \in B : x <= y
                 IN  QueryArgs(SubSeq(parts, 1, b - 1),
                               join(<<" ">>, SubSeq(parts, b, Len(parts))))
            ELSE QueryArgs(<<>>, Remainder)

C15_Witness ==
    /\ pc = "subprocess"
    /\ command = Words(<<"bq", "query", "--dataset=ds", "SELECT">>)
    /\ args = <<BqPath, <<"query">>, <<"--dataset=ds">>, <<"--format=json">>,
                <<"SELECT">>>>

\* a "bq query " command with fewer than three whitespace-delimited segments
MissingSql(q) ==
    /\ startswith(q, <<"bq", " ", "query", " ">>)
    /\ \A i \in 4..Len(q) : IsSpace(q[i])

\* a query that takes the BigQuery tables rule and names no dataset
TablesWithoutDataset(q) ==
    /\ ~startswith(q, <<"gcloud", " ">>)
    /\ ~startswith(q, <<"bq", " ">>)
    /\ RuleMatches("list_tables", q)
    /\ \A k \in 1..(Len(ClaimedOrder) - 1) : ~RuleMatches(ClaimedOrder[k], q)
    /\ \A i \in 1..Len(q) : Lower(q[i]) # "dataset"

\* the call was rejected: it returned an error and started no subprocess
Rejected == pc = "done" /\ launches = 0 /\ response.status = "error"

\* C16: a call of gcp_tool starts at most one subprocess, and none for an
\* unrecognized query, for a "bq query " command without SQL (error "Missing
\* SQL query") and for a BigQuery tables query that names no dataset (error
\* asking for a dataset, with suggestions).
C16_AtMostOneLaunch ==
    entry = "gcp_tool" =>
        /\ launches <= 1
        /\ pc = "subprocess" => launches = 1
        /\ Unrecognized(query) => Rejected
        /\ MissingSql(query) =>
               /\ Rejected
               /\ Contains(response.error_message,
                           <<"Invalid BigQuery query command. Missing SQL query.">>)
        /\ TablesWithoutDataset(query) =>
               /\ Rejected
               /\ response.error_message =
                      <<"Please specify a dataset. For example: 'Show BigQuery tables in dataset my_dataset'.">>
               /\ "suggested_commands" \in DOMAIN response
               /\ response.suggested_commands # <<>>

C16_Witness ==
    /\ entry = "gcp_tool"
    /\ query = Words(<<"list", "bigquery", "tables">>)
    /\ Rejected
    /\ "suggested_commands" \in DOMAIN response

====
